---- MODULE Spec2Model ----
(***************************************************************************)
(* Payment reconciliation and order lifecycle of YadrenoVPN.                *)
(*                                                                         *)
(* The tables payments, vpn_keys, tariffs and settings are the SQLite      *)
(* tables of database/migrations.py; the store functions of                *)
(* database/requests.py are operators over them; process_payment_order,   *)
(* process_crypto_payment (bot/services/billing.py) and the handlers of    *)
(* bot/handlers/user/payments.py are processes that take one store call    *)
(* per step.  Strings are sequences of one-character strings.              *)
(***************************************************************************)
EXTENDS Integers, Sequences, FiniteSets, TLC

\* ------------------------------------------------------------------ bounds
NumProcs == 2
MaxCalls == 2
MaxOrders == 1
MaxNow == 2

\* SQL NULL / Python None for integer columns (row ids and timestamps are >= 1)
NULL == 0

Procs == 1..NumProcs

\* ----------------------------------------------------------------- strings
ALPHABET ==
  << "0","1","2","3","4","5","6","7","8","9",
     "A","B","C","D","E","F","G","H","I","J","K","L","M",
     "N","O","P","Q","R","S","T","U","V","W","X","Y","Z",
     "a","b","c","d","e","f","g","h","i","j","k","l","m",
     "n","o","p","q","r","s","t","u","v","w","x","y","z" >>

BASE62_ALPHABET == ALPHABET

RECURSIVE Base62Digits(_)
Base62Digits(num) ==
  IF num = 0 THEN << >>
  ELSE Append(Base62Digits(num \div 62), BASE62_ALPHABET[(num % 62) + 1])

int_to_base62(num) ==
  IF num = 0 THEN << BASE62_ALPHABET[1] >> ELSE Base62Digits(num)

startswith(s, pre) ==
  Len(s) >= Len(pre) /\ SubSeq(s, 1, Len(pre)) = pre

RECURSIVE split(_, _)
split(s, sep) ==
  LET hits == { i \in 1..Len(s) : s[i] = sep } IN
  IF hits = {} THEN << s >>
  ELSE LET i == CHOOSE j \in hits : \A k \in hits : j <= k IN
       << SubSeq(s, 1, i - 1) >> \o split(SubSeq(s, i + 1, Len(s)), sep)

\* ------------------------------------------------------------------ tables
VARIABLES
  payments,   \* table payments: row id = index
  vpn_keys,   \* table vpn_keys: row id = index
  tariffs,    \* table tariffs: row id = index
  settings,   \* table settings: the value of crypto_secret_key (<< >> if unset)
  fsm,        \* the user's dialog data: << >> or <<[order_id, key_id]>>
  now,        \* wall clock, in days
  pc,         \* position of each invocation
  loc,        \* local variables of each invocation
  hist,       \* per order row: what the store calls did (history)
  ncalls      \* number of invocations started

vars == << payments, vpn_keys, tariffs, settings, fsm, now, pc, loc, hist, ncalls >>

USER == 1

InitTariffs ==
  << [duration_days |-> 30, price_cents |-> 300, price_stars |-> 150,
      external_id |-> 1, is_active |-> TRUE],
     [duration_days |-> 60, price_cents |-> 500, price_stars |-> 250,
      external_id |-> 2, is_active |-> TRUE] >>

InitKeys ==
  << [user_id |-> USER, tariff_id |-> 1, server_id |-> 1,
      panel_inbound_id |-> 1, panel_email |-> 1, client_uuid |-> 1,
      expires_at |-> 2] >>

\* ------------------------------------------------------------- store calls
get_tariff_by_id(tar, tariff_id) ==
  IF tariff_id \in 1..Len(tar) THEN << tar[tariff_id] >> ELSE << >>

RowsOf(pay, order_id) == { i \in 1..Len(pay) : pay[i].order_id = order_id }

\* SELECT p.*, t.duration_days FROM payments p LEFT JOIN tariffs t
OrderDict(pay, tar, i) ==
  [ id |-> i,
    order_id |-> pay[i].order_id,
    user_id |-> pay[i].user_id,
    tariff_id |-> pay[i].tariff_id,
    payment_type |-> pay[i].payment_type,
    vpn_key_id |-> pay[i].vpn_key_id,
    amount_cents |-> pay[i].amount_cents,
    amount_stars |-> pay[i].amount_stars,
    period_days |-> pay[i].period_days,
    status |-> pay[i].status,
    paid_at |-> pay[i].paid_at,
    duration_days |-> IF pay[i].tariff_id \in 1..Len(tar)
                      THEN tar[pay[i].tariff_id].duration_days ELSE NULL ]

find_order_by_order_id(pay, tar, order_id) ==
  LET hit == RowsOf(pay, order_id) IN
  IF hit = {} THEN << >>
  ELSE << OrderDict(pay, tar, CHOOSE i \in hit : \A j \in hit : i <= j) >>

\* a gate that never recognises a duplicate delivery
is_order_already_paid_never(pay, order_id) == FALSE

\* an order the store does not hold passes for a paid one
is_order_already_paid_or_missing(pay, order_id) ==
  \A i \in RowsOf(pay, order_id) : pay[i].status = "paid"

is_order_already_paid(pay, order_id) ==
  \E i \in RowsOf(pay, order_id) : pay[i].status = "paid"

\* the status is set and paid_at is left as it is
complete_order_without_time(pay, order_id, ts) ==
  LET hit == { i \in RowsOf(pay, order_id) : pay[i].status = "pending" } IN
  [ db |-> [ i \in 1..Len(pay) |->
               IF i \in hit THEN [pay[i] EXCEPT !.status = "paid"] ELSE pay[i] ],
    ret |-> hit # {} ]

complete_order_unguarded(pay, order_id, ts) ==
  LET hit == RowsOf(pay, order_id) IN
  [ db |-> [ i \in 1..Len(pay) |->
               IF i \in hit THEN [pay[i] EXCEPT !.status = "paid", !.paid_at = ts]
               ELSE pay[i] ],
    ret |-> hit # {} ]

\* WHERE order_id = ? AND status != 'paid'
complete_order_from_any_unpaid(pay, order_id, ts) ==
  LET hit == { i \in RowsOf(pay, order_id) : pay[i].status # "paid" } IN
  [ db |-> [ i \in 1..Len(pay) |->
               IF i \in hit THEN [pay[i] EXCEPT !.status = "paid", !.paid_at = ts]
               ELSE pay[i] ],
    ret |-> hit # {} ]

complete_order_no_write(pay, order_id, ts) ==
  [ db |-> pay,
    ret |-> \E i \in RowsOf(pay, order_id) : pay[i].status = "pending" ]

complete_order(pay, order_id, ts) ==
  LET hit == { i \in RowsOf(pay, order_id) : pay[i].status = "pending" } IN
  [ db |-> [ i \in 1..Len(pay) |->
               IF i \in hit THEN [pay[i] EXCEPT !.status = "paid", !.paid_at = ts]
               ELSE pay[i] ],
    ret |-> hit # {} ]

update_payment_key_id(pay, order_id, vpn_key_id) ==
  LET hit == RowsOf(pay, order_id) IN
  [ db |-> [ i \in 1..Len(pay) |->
               IF i \in hit THEN [pay[i] EXCEPT !.vpn_key_id = vpn_key_id]
               ELSE pay[i] ],
    ret |-> hit # {} ]

\* the UPDATE matches the row and leaves it as it is
extend_vpn_key_nothing(keys, key_id, days, ts) ==
  [ db |-> keys, ret |-> key_id \in 1..Len(keys) ]

\* the extension always counts from now
extend_vpn_key_from_now(keys, key_id, days, ts) ==
  LET hit == { k \in 1..Len(keys) : k = key_id } IN
  [ db |-> [ k \in 1..Len(keys) |->
               IF k \in hit THEN [keys[k] EXCEPT !.expires_at = ts + days]
               ELSE keys[k] ],
    ret |-> hit # {} ]

extend_vpn_key(keys, key_id, days, ts) ==
  LET hit == { k \in 1..Len(keys) : k = key_id } IN
  [ db |-> [ k \in 1..Len(keys) |->
               IF k \in hit
               THEN [keys[k] EXCEPT !.expires_at =
                       (IF keys[k].expires_at > ts THEN keys[k].expires_at ELSE ts)
                       + days]
               ELSE keys[k] ],
    ret |-> hit # {} ]

\* the new key is put on a server at once
create_initial_vpn_key_on_server(keys, user_id, tariff_id, days, ts) ==
  [ db |-> Append(keys, [user_id |-> user_id, tariff_id |-> tariff_id,
                         server_id |-> 1, panel_inbound_id |-> NULL,
                         panel_email |-> NULL, client_uuid |-> NULL,
                         expires_at |-> ts + days]),
    ret |-> Len(keys) + 1 ]

create_initial_vpn_key(keys, user_id, tariff_id, days, ts) ==
  [ db |-> Append(keys, [user_id |-> user_id, tariff_id |-> tariff_id,
                         server_id |-> NULL, panel_inbound_id |-> NULL,
                         panel_email |-> NULL, client_uuid |-> NULL,
                         expires_at |-> ts + days]),
    ret |-> Len(keys) + 1 ]

\* the order_id of the INSERT, replaced in the same transaction
TEMPORARY_ID == << "p", "e", "n", "d", "i", "n", "g" >>

\* the row keeps no copy of the tariff: its amounts stay 0
create_pending_order_no_snapshot(pay, tar, user_id, tariff_id, payment_type, vpn_key_id) ==
  LET tariff == IF tariff_id # NULL THEN get_tariff_by_id(tar, tariff_id) ELSE << >>
      payment_id == Len(pay) + 1
      order_id == << "0", "0" >> \o int_to_base62(payment_id)
  IN IF RowsOf(pay, TEMPORARY_ID) # {} \/ RowsOf(pay, order_id) # {}
     THEN [ db |-> pay, ret |-> << NULL, << >> >> ]
     ELSE
     [ db |-> Append(pay,
                [ order_id |-> order_id,
                  user_id |-> user_id,
                  tariff_id |-> tariff_id,
                  payment_type |-> payment_type,
                  vpn_key_id |-> vpn_key_id,
                  amount_cents |-> 0,
                  amount_stars |-> 0,
                  period_days |-> IF tariff # << >> THEN tariff[1].duration_days ELSE NULL,
                  status |-> "pending",
                  paid_at |-> NULL ]),
       ret |-> << payment_id, order_id >> ]

\* the INSERT and the UPDATE raise on the UNIQUE(order_id) constraint and the
\* transaction is rolled back
create_pending_order(pay, tar, user_id, tariff_id, payment_type, vpn_key_id) ==
  LET tariff == IF tariff_id # NULL THEN get_tariff_by_id(tar, tariff_id) ELSE << >>
      payment_id == Len(pay) + 1
      order_id == << "0", "0" >> \o int_to_base62(payment_id)
  IN IF RowsOf(pay, TEMPORARY_ID) # {} \/ RowsOf(pay, order_id) # {}
     THEN [ db |-> pay, ret |-> << NULL, << >> >> ]
     ELSE
     [ db |-> Append(pay,
                [ order_id |-> order_id,
                  user_id |-> user_id,
                  tariff_id |-> tariff_id,
                  payment_type |-> payment_type,
                  vpn_key_id |-> vpn_key_id,
                  amount_cents |-> IF tariff # << >> THEN tariff[1].price_cents ELSE 0,
                  amount_stars |-> IF tariff # << >> THEN tariff[1].price_stars ELSE 0,
                  period_days |-> IF tariff # << >> THEN tariff[1].duration_days ELSE NULL,
                  status |-> "pending",
                  paid_at |-> NULL ]),
       ret |-> << payment_id, order_id >> ]


\* ------------------------------------------ billing: signature and parsing
\* Bytes of the truncated digest that are signed (the program signs 11; the
\* model keeps the integer below 2^31)
SIG_BYTES == 2

CharCode(c) ==
  IF \E i \in 1..62 : ALPHABET[i] = c
  THEN CHOOSE i \in 1..62 : ALPHABET[i] = c
  ELSE IF c = "-" THEN 63 ELSE IF c = "_" THEN 64 ELSE 65

RECURSIVE Mix(_, _)
Mix(h, s) ==
  IF s = << >> THEN h ELSE Mix((h * 31 + CharCode(Head(s))) % 65521, Tail(s))

\* stands for hmac.new(key, msg, sha256).digest(): a keyed hash, 4 bytes wide
hmac_digest(key, msg) ==
  LET h1 == Mix(Mix(17, key), msg)
      h2 == Mix(h1, key)
  IN << h1 \div 256, h1 % 256, h2 \div 256, h2 % 256 >>

RECURSIVE from_bytes(_)
from_bytes(data) ==
  IF data = << >> THEN 0
  ELSE from_bytes(SubSeq(data, 1, Len(data) - 1)) * 256 + data[Len(data)]

encode_base62(data) ==
  IF data = << >> THEN << >>
  ELSE LET num == from_bytes(data) IN
       IF num = 0 THEN << "0" >> ELSE Base62Digits(num)

expected_signature(data_part, secret_key) ==
  encode_base62(SubSeq(hmac_digest(secret_key, data_part), 1, SIG_BYTES))

\* a character outside ASCII (e with acute accent)
NON_ASCII == "U+00E9"

is_ascii(s) == \A i \in 1..Len(s) : s[i] # NON_ASCII

\* hmac.compare_digest on two str: TypeError when either holds a character
\* outside ASCII, otherwise their equality
compare_digest(a, b) ==
  [ raised |-> ~is_ascii(a) \/ ~is_ascii(b), ret |-> a = b ]

\* line 78: is_valid = hmac.compare_digest(expected, received_signature)
verify_crypto_signature(data_part, received_signature, secret_key) ==
  compare_digest(expected_signature(data_part, secret_key), received_signature)

DIGITS == { "0", "1", "2", "3", "4", "5", "6", "7", "8", "9" }

\* int(s) succeeds (decimal digits only)
is_int(s) == s # << >> /\ \A i \in 1..Len(s) : s[i] \in DIGITS

RECURSIVE to_int(_)
to_int(s) ==
  IF s = << >> THEN 0
  ELSE to_int(SubSeq(s, 1, Len(s) - 1)) * 10 + (CharCode(s[Len(s)]) - 1)

BILL == << "b", "i", "l", "l" >>
PLACEHOLDER == << "_" >>

\* the price segment is taken as it comes
parse_crypto_callback_any_price(start_param) ==
  IF start_param = << >> \/ ~startswith(start_param, BILL) THEN << >>
  ELSE LET parts == split(start_param, "-") IN
       IF Len(parts) < 7 THEN << >>
       ELSE LET signature == parts[Len(parts)] IN
            << [ prefix |-> parts[1],
                 order_id |-> parts[2],
                 item_id |-> parts[3],
                 tariff |-> parts[4],
                 promo |-> parts[5],
                 price |-> 0,
                 signature |-> signature,
                 data_part |-> SubSeq(start_param, 1,
                                      Len(start_param) - Len(signature) - 1) ] >>

\* None is << >>, a dict is a one-element sequence
parse_crypto_callback(start_param) ==
  IF start_param = << >> \/ ~startswith(start_param, BILL) THEN << >>
  ELSE LET parts == split(start_param, "-") IN
       IF Len(parts) < 7 THEN << >>
       ELSE IF parts[6] # PLACEHOLDER /\ ~is_int(parts[6]) THEN << >>
       ELSE LET signature == parts[Len(parts)] IN
            << [ prefix |-> parts[1],
                 order_id |-> parts[2],
                 item_id |-> parts[3],
                 tariff |-> parts[4],
                 promo |-> parts[5],
                 price |-> IF parts[6] # PLACEHOLDER THEN to_int(parts[6]) ELSE 0,
                 signature |-> signature,
                 data_part |-> SubSeq(start_param, 1,
                                      Len(start_param) - Len(signature) - 1) ] >>

\* WHERE external_id = ? (hidden tariffs included)
get_tariff_by_external_id_any(tar, external_id) ==
  LET hit == { t \in 1..Len(tar) : tar[t].external_id = external_id } IN
  IF hit = {} THEN << >>
  ELSE LET t == CHOOSE x \in hit : \A y \in hit : x <= y IN
       << [id |-> t, duration_days |-> tar[t].duration_days,
           price_cents |-> tar[t].price_cents,
           price_stars |-> tar[t].price_stars] >>

get_tariff_by_external_id(tar, external_id) ==
  LET hit == { t \in 1..Len(tar) :
                 tar[t].external_id = external_id /\ tar[t].is_active } IN
  IF hit = {} THEN << >>
  ELSE LET t == CHOOSE x \in hit : \A y \in hit : x <= y IN
       << [id |-> t, duration_days |-> tar[t].duration_days,
           price_cents |-> tar[t].price_cents,
           price_stars |-> tar[t].price_stars] >>

\* UPDATE tariffs SET <field> = ? WHERE id = ?
update_tariff(tar, tariff_id, field, value) ==
  [ db |-> [ t \in 1..Len(tar) |->
               IF t = tariff_id THEN [tar[t] EXCEPT ![field] = value] ELSE tar[t] ],
    ret |-> tariff_id \in 1..Len(tar) ]

update_tariff_field(tar, tariff_id, field, value) ==
  update_tariff(tar, tariff_id, field, value)

toggle_tariff_active(tar, tariff_id) ==
  IF get_tariff_by_id(tar, tariff_id) = << >> THEN [db |-> tar, ret |-> << >>]
  ELSE LET new_status == ~tar[tariff_id].is_active IN
       [ db |-> [ t \in 1..Len(tar) |->
                    IF t = tariff_id THEN [tar[t] EXCEPT !.is_active = new_status]
                    ELSE tar[t] ],
         ret |-> << new_status >> ]

\* the tariff and the amounts are replaced, period_days is left as it was
update_order_tariff_keeps_period(pay, tar, order_id, tariff_id, payment_type) ==
  LET tariff == get_tariff_by_id(tar, tariff_id)
      hit == RowsOf(pay, order_id)
  IN IF tariff = << >> THEN [db |-> pay, ret |-> FALSE]
     ELSE [ db |-> [ i \in 1..Len(pay) |->
                       IF i \in hit
                       THEN [pay[i] EXCEPT
                               !.tariff_id = tariff_id,
                               !.amount_cents = tariff[1].price_cents,
                               !.amount_stars = tariff[1].price_stars,
                               !.payment_type =
                                  IF payment_type # "" THEN payment_type ELSE @]
                       ELSE pay[i] ],
            ret |-> hit # {} ]

\* COALESCE(?, payment_type): "" stands for a payment_type argument of None
update_order_tariff(pay, tar, order_id, tariff_id, payment_type) ==
  LET tariff == get_tariff_by_id(tar, tariff_id)
      hit == RowsOf(pay, order_id)
  IN IF tariff = << >> THEN [db |-> pay, ret |-> FALSE]
     ELSE [ db |-> [ i \in 1..Len(pay) |->
                       IF i \in hit
                       THEN [pay[i] EXCEPT
                               !.tariff_id = tariff_id,
                               !.amount_cents = tariff[1].price_cents,
                               !.amount_stars = tariff[1].price_stars,
                               !.period_days = tariff[1].duration_days,
                               !.payment_type =
                                  IF payment_type # "" THEN payment_type ELSE @]
                       ELSE pay[i] ],
            ret |-> hit # {} ]

\* the INSERT raises on the UNIQUE(order_id) constraint; caught, returns False
create_paid_order_external(pay, order_id, user_id, tariff_id, payment_type, amount_cents, amount_stars, period_days) ==
  IF RowsOf(pay, order_id) # {} THEN [db |-> pay, ret |-> FALSE]
  ELSE [ db |-> Append(pay,
                  [ order_id |-> order_id,
                    user_id |-> user_id,
                    tariff_id |-> tariff_id,
                    payment_type |-> payment_type,
                    vpn_key_id |-> NULL,
                    amount_cents |-> amount_cents,
                    amount_stars |-> amount_stars,
                    period_days |-> period_days,
                    status |-> "pending",
                    paid_at |-> NULL ]),
         ret |-> TRUE ]

\* ---------------------------------------------------------------- locals
NoOrder == << >>

NoRes == [ok |-> FALSE, msg |-> "none", order |-> NoOrder]

InitLoc ==
  [ kind |-> "idle", order_id |-> << >>, user_id |-> NULL,
    parsed |-> << >>, tariff |-> << >>,
    order |-> NoOrder, key_id |-> NULL, res |-> NoRes,
    \* history of the invocation, read by the properties only
    forged |-> FALSE,        \* the signature is not the one of the data part
    started_paid |-> FALSE,  \* the order was paid when process_payment_order began
    refused_paid |-> FALSE,  \* complete_order returned False on a paid order
    prov_failed |-> FALSE,   \* the provisioning step failed
    retariffed |-> FALSE,    \* update_order_tariff replaced the order's tariff
    malformed |-> "",        \* what the payload lacks of the shape of a callback
    payload |-> << >> ]      \* the invoice payload of the receipt

\* history of an order row: complete_order calls that returned True, calls of
\* extend_vpn_key and drafts created by process_payment_order, whether the row
\* was created for a renewal, whether create_initial_vpn_key raised
NewHist(vpn_key_id, tariff_id) ==
  [ completed |-> 0, extended |-> 0, drafted |-> 0,
    renewal |-> vpn_key_id # NULL, create_raised |-> FALSE,
    \* the tariff at creation, the days given to the key by the last
    \* provisioning, whether the key had run out when it was extended
    made_with |-> tariff_id, days |-> 0, lapsed |-> FALSE,
    \* the row was made by create_paid_order_external
    external |-> FALSE,
    \* the key the order was created for
    for_key |-> vpn_key_id,
    \* the add_client calls the panel answered, the update_vpn_key_config
    \* calls made for the order's key
    clients |-> 0, attached |-> 0 ]

\* Python's `a or b` on integers (None and 0 are both falsy)
PyOr(a, b) == IF a # NULL THEN a ELSE b

Result(ok, msg, order) == [ok |-> ok, msg |-> msg, order |-> order]

\* ------------------------------------------ billing.process_payment_order
PaidNow(order_id) ==
  \E i \in RowsOf(payments, order_id) : payments[i].status = "paid"

\* every refusal of complete_order is taken for the duplicate case
refusal_is_duplicate(order) == TRUE

\* line 160: complete_order returned False; is it the duplicate case?
already_paid_snapshot(order) == order.status = "paid"

renewal_failed(order) == Result(TRUE, "renew_problem", << order >>)

provisioning_failed_as_error(order) == Result(FALSE, "create_error", << order >>)

provisioning_failed(order) == Result(TRUE, "create_error", << order >>)

\* the live join is taken first: duration_days or period_days
renewal_days_live(order) == PyOr(order.duration_days, order.period_days)

\* line 170: order.get('period_days') or order.get('duration_days')
renewal_days(order) == PyOr(order.period_days, order.duration_days)

draft_days_live(order) == PyOr(PyOr(order.duration_days, order.period_days), 30)

\* line 180: ... or order.get('duration_days') or 30
draft_days(order) == PyOr(PyOr(order.period_days, order.duration_days), 30)

ppo_check(p) ==
  /\ pc[p] = "ppo_check"
  /\ pc' = [pc EXCEPT ![p] =
              IF is_order_already_paid(payments, loc[p].order_id)
              THEN "ppo_dup" ELSE "ppo_find"]
  /\ UNCHANGED << payments, vpn_keys, tariffs, settings, fsm, now, loc, hist, ncalls >>

ppo_dup(p) ==
  /\ pc[p] = "ppo_dup"
  /\ LET order == find_order_by_order_id(payments, tariffs, loc[p].order_id) IN
     loc' = [loc EXCEPT ![p].order = order,
                        ![p].res = Result(TRUE, "already", order)]
  /\ pc' = [pc EXCEPT ![p] = "done"]
  /\ UNCHANGED << payments, vpn_keys, tariffs, settings, fsm, now, hist, ncalls >>

ppo_find(p) ==
  /\ pc[p] = "ppo_find"
  /\ LET order == find_order_by_order_id(payments, tariffs, loc[p].order_id) IN
     IF order = NoOrder
     THEN /\ loc' = [loc EXCEPT ![p].res = Result(FALSE, "notfound", NoOrder)]
          /\ pc' = [pc EXCEPT ![p] = "done"]
     ELSE /\ loc' = [loc EXCEPT ![p].order = order]
          /\ pc' = [pc EXCEPT ![p] = "ppo_complete"]
  /\ UNCHANGED << payments, vpn_keys, tariffs, settings, fsm, now, hist, ncalls >>

ppo_complete(p) ==
  /\ pc[p] = "ppo_complete"
  /\ LET order == loc[p].order[1]
         r == complete_order(payments, loc[p].order_id, now)
     IN /\ payments' = r.db
        /\ hist' = IF r.ret
                   THEN [hist EXCEPT ![order.id].completed = @ + 1]
                   ELSE hist
        /\ IF ~r.ret /\ ~already_paid_snapshot(order)
           THEN /\ loc' = [loc EXCEPT ![p].res =
                             Result(FALSE, "status_error", << order >>),
                                      ![p].refused_paid = PaidNow(loc[p].order_id)]
                /\ pc' = [pc EXCEPT ![p] = "done"]
           ELSE /\ loc' = [loc EXCEPT ![p].refused_paid =
                             ~r.ret /\ PaidNow(loc[p].order_id)]
                /\ pc' = [pc EXCEPT ![p] =
                            IF order.vpn_key_id # NULL
                            THEN "ppo_extend" ELSE "ppo_create"]
  /\ UNCHANGED << vpn_keys, tariffs, settings, fsm, now, ncalls >>

ppo_extend(p) ==
  /\ pc[p] = "ppo_extend"
  /\ LET order == loc[p].order[1]
         days == renewal_days(order)
         r == extend_vpn_key(vpn_keys, order.vpn_key_id, days, now)
     IN IF days # NULL
        THEN /\ vpn_keys' = r.db
             /\ hist' = [hist EXCEPT ![order.id].extended = @ + 1,
                                      ![order.id].days = days,
                                      ![order.id].lapsed =
                                         /\ order.vpn_key_id \in 1..Len(vpn_keys)
                                         /\ vpn_keys[order.vpn_key_id].expires_at < now]
             /\ loc' = [loc EXCEPT ![p].res =
                          IF r.ret THEN Result(TRUE, "renewed", << order >>)
                          ELSE renewal_failed(order),
                                   ![p].prov_failed = ~r.ret]
        ELSE /\ loc' = [loc EXCEPT ![p].res = renewal_failed(order),
                                   ![p].prov_failed = TRUE]
             /\ UNCHANGED << vpn_keys, hist >>
  /\ pc' = [pc EXCEPT ![p] = "done"]
  /\ UNCHANGED << payments, tariffs, settings, fsm, now, ncalls >>

\* the INSERT either commits or raises (sqlite3.Error), caught at line 191
ppo_create(p) ==
  /\ pc[p] = "ppo_create"
  /\ LET order == loc[p].order[1]
         days == draft_days(order)
         r == create_initial_vpn_key(vpn_keys, order.user_id, order.tariff_id,
                                     days, now)
     IN \E raised \in BOOLEAN :
          IF raised
          THEN /\ loc' = [loc EXCEPT ![p].res = provisioning_failed(order),
                                     ![p].prov_failed = TRUE]
               /\ hist' = [hist EXCEPT ![order.id].create_raised = TRUE]
               /\ pc' = [pc EXCEPT ![p] = "done"]
               /\ UNCHANGED vpn_keys
          ELSE /\ vpn_keys' = r.db
               /\ hist' = [hist EXCEPT ![order.id].drafted = @ + 1,
                                        ![order.id].days = days]
               /\ loc' = [loc EXCEPT ![p].key_id = r.ret]
               /\ pc' = [pc EXCEPT ![p] = "ppo_attach"]
  /\ UNCHANGED << payments, tariffs, settings, fsm, now, ncalls >>

ppo_attach(p) ==
  /\ pc[p] = "ppo_attach"
  /\ LET order == loc[p].order[1]
         r == update_payment_key_id(payments, loc[p].order_id, loc[p].key_id)
     IN \E raised \in BOOLEAN :
          IF raised
          THEN /\ loc' = [loc EXCEPT ![p].res = provisioning_failed(order),
                                     ![p].prov_failed = TRUE]
               /\ UNCHANGED << payments, hist >>
          ELSE /\ payments' = r.db
               /\ LET linked == [order EXCEPT !.vpn_key_id = loc[p].key_id] IN
                  loc' = [loc EXCEPT ![p].order = << linked >>,
                                     ![p].res = Result(TRUE, "created", << linked >>)]
               /\ UNCHANGED hist
  /\ pc' = [pc EXCEPT ![p] = "done"]
  /\ UNCHANGED << vpn_keys, tariffs, settings, fsm, now, ncalls >>

process_payment_order(p) ==
  \/ ppo_check(p) \/ ppo_dup(p) \/ ppo_find(p) \/ ppo_complete(p)
  \/ ppo_extend(p) \/ ppo_create(p) \/ ppo_attach(p)


\* ----------------------------------------- billing.process_crypto_payment
\* an order id in our namespace that no row carries
UNKNOWN_ORDER == << "0", "0", "z" >>

SECRET == << "k", "1" >>
ITEM_ID == << "5" >>
EXTERNAL_ORDER == << "X", "7" >>

data_part_of(order_id, tariff, price) ==
  BILL \o << "1", "-" >> \o order_id \o << "-" >> \o ITEM_ID \o << "-" >>
       \o tariff \o << "-", "_", "-" >> \o price

\* what the processor sends: the data part and its signature
signed_payload(order_id, tariff, price) ==
  LET d == data_part_of(order_id, tariff, price) IN
  d \o << "-" >> \o expected_signature(d, SECRET)

\* the data part names tariff `tariff`, the signature was made for `signed_for`
tampered_payload(order_id, tariff, signed_for, price) ==
  data_part_of(order_id, tariff, price) \o << "-" >>
    \o expected_signature(data_part_of(order_id, signed_for, price), SECRET)

\* the signature with its last character replaced by c
altered_signature(signature, c) ==
  [signature EXCEPT ![Len(signature)] = c]

\* an ASCII character that is not the last one of the signature
other_character(signature) ==
  IF signature[Len(signature)] = "0" THEN "1" ELSE "0"

\* what a user can type after /start: a callback with one character of its
\* signature changed
resigned_payload(order_id, tariff, price, non_ascii) ==
  LET d == data_part_of(order_id, tariff, price)
      signature == expected_signature(d, SECRET)
  IN d \o << "-" >> \o altered_signature(signature,
                         IF non_ascii THEN NON_ASCII ELSE other_character(signature))

MALFORMED == BILL \o << "1", "-", "0", "0", "1" >>

\* a signed callback whose price segment is neither a number nor the placeholder
BAD_PRICE == signed_payload(UNKNOWN_ORDER, << "1" >>, << "x" >>)

\* a signed string of seven segments that lacks the first letter of the prefix
UNPREFIXED ==
  LET d == Tail(data_part_of(UNKNOWN_ORDER, << "1" >>, PLACEHOLDER)) IN
  d \o << "-" >> \o expected_signature(d, SECRET)

\* strings no handler passes on: every caller tests the prefix first
DirectPayloads == { UNPREFIXED, << >> }

\* what is wrong with the shape of a callback ("" when nothing is): the
\* prefix, seven segments, a price that is a number or the placeholder
bad_shape(start_param) ==
  IF ~startswith(start_param, BILL) THEN "prefix"
  ELSE IF Len(split(start_param, "-")) < 7 THEN "segments"
  ELSE LET price == split(start_param, "-")[6] IN
       IF price # PLACEHOLDER
          /\ (price = << >> \/ \E i \in 1..Len(price) : price[i] \notin DIGITS)
       THEN "price" ELSE ""

\* the id create_pending_order will give to the next row
NextOrderId == << "0", "0" >> \o int_to_base62(Len(payments) + 1)

\* callbacks the processor or a user can send while the store holds fewer than
\* `limit` rows
CryptoPayloadsUpTo(limit) ==
  UNION { { signed_payload(payments[i].order_id, << "2" >>, PLACEHOLDER),
            signed_payload(payments[i].order_id, PLACEHOLDER, PLACEHOLDER),
            tampered_payload(payments[i].order_id, << "2" >>, << "1" >>, PLACEHOLDER),
            resigned_payload(payments[i].order_id, PLACEHOLDER, PLACEHOLDER, FALSE),
            resigned_payload(payments[i].order_id, PLACEHOLDER, PLACEHOLDER, TRUE) } :
          i \in 1..Len(payments) }
  \cup { signed_payload(UNKNOWN_ORDER, << "1" >>, PLACEHOLDER), MALFORMED, BAD_PRICE }
  \cup ( IF Len(payments) < limit
         THEN { signed_payload(NextOrderId, << "1" >>, PLACEHOLDER),
                signed_payload(EXTERNAL_ORDER, << "1" >>, << "9", "0", "0" >>),
                signed_payload(EXTERNAL_ORDER, PLACEHOLDER, PLACEHOLDER),
                signed_payload(EXTERNAL_ORDER, << "x" >>, PLACEHOLDER),
                signed_payload(EXTERNAL_ORDER, << "9" >>, PLACEHOLDER) }
         ELSE {} )

CryptoPayloads == CryptoPayloadsUpTo(MaxOrders)

Finish(p, res) ==
  /\ loc' = [loc EXCEPT ![p].res = res, ![p].parsed = << >>, ![p].tariff = << >>]
  /\ pc' = [pc EXCEPT ![p] = "done"]

\* line 294: return process_payment_order(order_id)
Delegate(p) ==
  /\ loc' = [loc EXCEPT ![p].parsed = << >>, ![p].tariff = << >>,
                        ![p].order = NoOrder,
                        ![p].started_paid = PaidNow(loc[p].order_id)]
  /\ pc' = [pc EXCEPT ![p] = "ppo_check"]

\* process_crypto_payment, lines 196-203: parse_crypto_callback is pure
cp_parse_as(p, start_param, kind, user_id) ==
  LET parsed == parse_crypto_callback(start_param) IN
  IF parsed = << >>
  THEN /\ loc' = [loc EXCEPT ![p] =
                    [InitLoc EXCEPT !.kind = kind, !.user_id = user_id,
                                    !.malformed = bad_shape(start_param),
                                    !.res = Result(FALSE, "bad_format", NoOrder)]]
       /\ pc' = [pc EXCEPT ![p] = "done"]
  ELSE /\ loc' = [loc EXCEPT ![p] =
                    [InitLoc EXCEPT !.kind = kind, !.user_id = user_id,
                                    !.order_id = parsed[1].order_id,
                                    !.parsed = parsed,
                                    !.malformed = bad_shape(start_param),
                                    !.forged =
                                       /\ settings # << >>
                                       /\ parsed[1].signature #
                                          expected_signature(
                                            parsed[1].data_part, settings)]]
       /\ pc' = [pc EXCEPT ![p] = "cp_secret"]

\* process_crypto_payment(start_param, user_id=user_id) of the payments router
cp_parse(p, start_param) == cp_parse_as(p, start_param, "crypto", USER)

\* handlers/user/main.py cmd_start: process_crypto_payment(args), no user_id
cmd_start(p) ==
  /\ pc[p] = "idle"
  /\ ncalls < MaxCalls
  /\ ncalls' = ncalls + 1
  /\ \E start_param \in CryptoPayloads : cp_parse_as(p, start_param, "start", NULL)
  /\ UNCHANGED << payments, vpn_keys, tariffs, settings, fsm, now, hist >>

\* handle_start_with_payment: /start bill...
handle_start_with_payment_of(p, payloads) ==
  /\ pc[p] = "idle"
  /\ ncalls < MaxCalls
  /\ ncalls' = ncalls + 1
  /\ \E start_param \in payloads : cp_parse(p, start_param)
  /\ UNCHANGED << payments, vpn_keys, tariffs, settings, fsm, now, hist >>

handle_start_with_payment(p) == handle_start_with_payment_of(p, CryptoPayloads)

\* process_crypto_payment called with a string that no handler lets through
process_crypto_payment_direct(p) ==
  /\ pc[p] = "idle"
  /\ ncalls < MaxCalls
  /\ ncalls' = ncalls + 1
  /\ \E start_param \in DirectPayloads : cp_parse(p, start_param)
  /\ UNCHANGED << payments, vpn_keys, tariffs, settings, fsm, now, hist >>

\* an exception that nothing catches leaves process_crypto_payment and its
\* handler: the call returns no result and the user gets no reply
Raised(exception) == [ok |-> FALSE, msg |-> exception, order |-> NoOrder]

\* get_setting('crypto_secret_key'), then verify_crypto_signature
\* an unset secret is used as it is
secret_missing_never(secret_key) == FALSE

\* line 207: not secret_key (None or the empty string)
secret_missing(secret_key) == secret_key = << >>

cp_secret(p) ==
  /\ pc[p] = "cp_secret"
  /\ LET parsed == loc[p].parsed[1]
         secret_key == settings
         is_valid == verify_crypto_signature(parsed.data_part, parsed.signature,
                                             secret_key)
     IN IF secret_missing(secret_key)
        THEN Finish(p, Result(FALSE, "config", NoOrder))
        ELSE IF is_valid.raised
        THEN Finish(p, Raised("TypeError"))
        ELSE IF ~is_valid.ret
        THEN Finish(p, Result(FALSE, "bad_signature", NoOrder))
        ELSE /\ pc' = [pc EXCEPT ![p] = "cp_find"]
             /\ loc' = loc
  /\ UNCHANGED << payments, vpn_keys, tariffs, settings, fsm, now, hist, ncalls >>

\* an id of the internal namespace is taken for an external one
is_internal_order_never(order_id) == FALSE

\* line 218: order_id.startswith("00")
is_internal_order(order_id) == startswith(order_id, << "0", "0" >>)

\* an order of the processor is made for whoever the caller names
missing_user_never(user_id) == FALSE

\* line 243: if not user_id
missing_user(user_id) == user_id = NULL

\* line 219: find_order_by_order_id, and the branch taken on its result
cp_find(p) ==
  /\ pc[p] = "cp_find"
  /\ LET parsed == loc[p].parsed[1]
         order == find_order_by_order_id(payments, tariffs, loc[p].order_id)
         named == parsed.tariff # << >> /\ parsed.tariff # PLACEHOLDER
     IN IF order # NoOrder
        THEN IF named /\ is_int(parsed.tariff)
             THEN /\ loc' = [loc EXCEPT ![p].order = order]
                  /\ pc' = [pc EXCEPT ![p] = "cp_tariff"]
             ELSE Delegate(p)
        ELSE IF is_internal_order(loc[p].order_id)
             THEN Finish(p, Result(FALSE, "internal_missing", NoOrder))
        ELSE IF missing_user(loc[p].user_id)
             THEN Finish(p, Result(FALSE, "no_user", NoOrder))
        ELSE IF named /\ is_int(parsed.tariff)
             THEN /\ loc' = loc
                  /\ pc' = [pc EXCEPT ![p] = "cp_ext_tariff"]
        ELSE Finish(p, Result(FALSE, "unknown_tariff", NoOrder))
  /\ UNCHANGED << payments, vpn_keys, tariffs, settings, fsm, now, hist, ncalls >>

\* lines 224-229: get_tariff_by_external_id for an order that exists
cp_tariff(p) ==
  /\ pc[p] = "cp_tariff"
  /\ LET parsed == loc[p].parsed[1]
         order == loc[p].order[1]
         real_tariff == get_tariff_by_external_id(tariffs, to_int(parsed.tariff))
     IN IF real_tariff # << >>
           /\ (real_tariff[1].id # order.tariff_id \/ order.payment_type # "crypto")
        THEN /\ loc' = [loc EXCEPT ![p].tariff = real_tariff]
             /\ pc' = [pc EXCEPT ![p] = "cp_update"]
        ELSE Delegate(p)
  /\ UNCHANGED << payments, vpn_keys, tariffs, settings, fsm, now, hist, ncalls >>

\* line 231: update_order_tariff(order_id, real_tariff['id'], 'crypto')
cp_update(p) ==
  /\ pc[p] = "cp_update"
  /\ LET r == update_order_tariff(payments, tariffs, loc[p].order_id,
                                  loc[p].tariff[1].id, "crypto")
     IN /\ payments' = r.db
        /\ loc' = [loc EXCEPT ![p].parsed = << >>, ![p].tariff = << >>,
                              ![p].order = NoOrder,
                              ![p].started_paid = PaidNow(loc[p].order_id),
                              ![p].retariffed = r.ret]
        /\ pc' = [pc EXCEPT ![p] = "ppo_check"]
  /\ UNCHANGED << vpn_keys, tariffs, settings, fsm, now, hist, ncalls >>

\* lines 256-272: the tariff of an order first seen in the callback
cp_ext_tariff(p) ==
  /\ pc[p] = "cp_ext_tariff"
  /\ LET parsed == loc[p].parsed[1]
         tariff == get_tariff_by_external_id(tariffs, to_int(parsed.tariff))
     IN IF tariff = << >>
        THEN Finish(p, Result(FALSE, "unknown_tariff", NoOrder))
        ELSE /\ loc' = [loc EXCEPT ![p].tariff = tariff]
             /\ pc' = [pc EXCEPT ![p] = "cp_create"]
  /\ UNCHANGED << payments, vpn_keys, tariffs, settings, fsm, now, hist, ncalls >>

\* lines 274-291: create_paid_order_external
cp_create(p) ==
  /\ pc[p] = "cp_create"
  /\ LET parsed == loc[p].parsed[1]
         tariff == loc[p].tariff[1]
         amount_cents == IF parsed.price > 0 THEN parsed.price ELSE tariff.price_cents
         r == create_paid_order_external(payments, loc[p].order_id, loc[p].user_id,
                                         tariff.id, "crypto", amount_cents,
                                         tariff.price_stars, tariff.duration_days)
     IN /\ payments' = r.db
        /\ IF r.ret
           THEN /\ hist' = Append(hist, [NewHist(NULL, tariff.id) EXCEPT !.external = TRUE])
                /\ Delegate(p)
           ELSE /\ hist' = hist
                /\ Finish(p, Result(FALSE, "save_error", NoOrder))
  /\ UNCHANGED << vpn_keys, tariffs, settings, fsm, now, ncalls >>

process_crypto_payment(p) ==
  \/ cp_secret(p) \/ cp_find(p) \/ cp_tariff(p) \/ cp_update(p)
  \/ cp_ext_tariff(p) \/ cp_create(p)

\* ------------------------------- handlers/user/payments.py: Stars receipt
RENEW == << "r", "e", "n", "e", "w", ":" >>
VPN_KEY == << "v", "p", "n", "_", "k", "e", "y", ":" >>

\* the payload is the order id whatever its prefix
stars_order_id_bare(payload, charge_id) == payload

\* lines 187-193
stars_order_id(payload, charge_id) ==
  IF startswith(payload, RENEW) THEN split(payload, ":")[2]
  ELSE IF startswith(payload, VPN_KEY) THEN charge_id
  ELSE payload

\* invoice payloads the bot has issued (renew_stars_invoice line 150,
\* main.py line 1095), and one for an order the store does not hold
StarsPayloads ==
  { IF payments[i].vpn_key_id # NULL
    THEN RENEW \o payments[i].order_id ELSE payments[i].order_id :
    i \in 1..Len(payments) }
  \cup { UNKNOWN_ORDER }

CHARGE_ID == << "c", "h", "1" >>

\* invoices of an earlier version that can still be paid, and a renewal
\* payload with a second colon
OtherStarsPayloads ==
  { VPN_KEY \o << "1" >> }
  \cup { RENEW \o payments[i].order_id \o << ":", "x" >> : i \in 1..Len(payments) }

successful_payment_handler_of(p, payloads) ==
  /\ pc[p] = "idle"
  /\ ncalls < MaxCalls
  /\ \E payload \in payloads :
       loc' = [loc EXCEPT ![p] =
                 [InitLoc EXCEPT !.kind = "stars",
                                 !.payload = payload,
                                 !.order_id = stars_order_id(payload, CHARGE_ID),
                                 !.started_paid =
                                    PaidNow(stars_order_id(payload, CHARGE_ID))]]
  /\ pc' = [pc EXCEPT ![p] = "ppo_check"]
  /\ ncalls' = ncalls + 1
  /\ UNCHANGED << payments, vpn_keys, tariffs, settings, fsm, now, hist >>

successful_payment_handler(p) == successful_payment_handler_of(p, StarsPayloads)

\* a receipt for an invoice of another shape
successful_payment_other(p) == successful_payment_handler_of(p, OtherStarsPayloads)

\* finalize_payment_ui / start_new_key_config: a paid order whose key has no
\* server yet opens the server dialog (dialog data: order id and key id)
is_draft(keys, key_id) ==
  key_id # NULL /\ key_id \in 1..Len(keys) /\ keys[key_id].server_id = NULL

handler_return(p) ==
  /\ pc[p] = "done"
  /\ pc' = [pc EXCEPT ![p] = "idle"]
  /\ loc' = [loc EXCEPT ![p] = InitLoc]
  /\ LET res == loc[p].res IN
     IF loc[p].kind \in {"stars", "crypto"} /\ res.ok /\ res.order # NoOrder
        /\ is_draft(vpn_keys, res.order[1].vpn_key_id)
     THEN fsm' = << [order_id |-> res.order[1].order_id,
                     key_id |-> res.order[1].vpn_key_id] >>
     ELSE IF loc[p].kind = "start" /\ res.ok /\ res.order # NoOrder
             /\ res.order[1].vpn_key_id = NULL
     \* cmd_start: start_new_key_config(message, state, order['order_id'])
     THEN fsm' = << [order_id |-> res.order[1].order_id, key_id |-> NULL] >>
     ELSE fsm' = fsm
  /\ UNCHANGED << payments, vpn_keys, tariffs, settings, now, hist, ncalls >>

\* ------------------------------ handlers/user/payments.py: new key dialog
SERVER == 1
INBOUND == 1

update_vpn_key_config(keys, key_id, server_id, panel_inbound_id, panel_email, client_uuid) ==
  LET hit == { k \in 1..Len(keys) : k = key_id } IN
  [ db |-> [ k \in 1..Len(keys) |->
               IF k \in hit
               THEN [keys[k] EXCEPT !.server_id = server_id,
                                    !.panel_inbound_id = panel_inbound_id,
                                    !.panel_email = panel_email,
                                    !.client_uuid = client_uuid]
               ELSE keys[k] ],
    ret |-> hit # {} ]

\* the server / inbound button: state.get_data(), line 405
nkf_begin(p) ==
  /\ pc[p] = "idle"
  /\ ncalls < MaxCalls
  /\ fsm # << >>
  /\ ncalls' = ncalls + 1
  /\ loc' = [loc EXCEPT ![p] =
               [InitLoc EXCEPT !.kind = "new_key", !.user_id = USER,
                               !.order_id = fsm[1].order_id,
                               !.key_id = fsm[1].key_id]]
  /\ pc' = [pc EXCEPT ![p] = "nkf_find"]
  /\ UNCHANGED << payments, vpn_keys, tariffs, settings, fsm, now, hist >>

\* lines 414-428: find the order; without a key id in the dialog data take the
\* order's key, or create and attach one
nkf_find(p) ==
  /\ pc[p] = "nkf_find"
  /\ LET order == find_order_by_order_id(payments, tariffs, loc[p].order_id) IN
     IF order = NoOrder
     THEN /\ fsm' = << >>
          /\ Finish(p, Result(FALSE, "order_missing", NoOrder))
          /\ UNCHANGED << payments, vpn_keys >>
     ELSE IF loc[p].key_id # NULL
     THEN /\ loc' = [loc EXCEPT ![p].order = order]
          /\ pc' = [pc EXCEPT ![p] = "nkf_add"]
          /\ UNCHANGED << payments, vpn_keys, fsm >>
     ELSE IF order[1].vpn_key_id # NULL
     THEN /\ loc' = [loc EXCEPT ![p].order = order,
                                ![p].key_id = order[1].vpn_key_id]
          /\ pc' = [pc EXCEPT ![p] = "nkf_add"]
          /\ UNCHANGED << payments, vpn_keys, fsm >>
     ELSE LET days == PyOr(PyOr(order[1].period_days, order[1].duration_days), 30)
              k == create_initial_vpn_key(vpn_keys, order[1].user_id,
                                          order[1].tariff_id, days, now)
              r == update_payment_key_id(payments, loc[p].order_id, k.ret)
          IN /\ vpn_keys' = k.db
             /\ payments' = r.db
             /\ loc' = [loc EXCEPT ![p].order = order, ![p].key_id = k.ret]
             /\ pc' = [pc EXCEPT ![p] = "nkf_add"]
             /\ fsm' = fsm
  /\ UNCHANGED << tariffs, settings, now, hist, ncalls >>

\* lines 441-459: client.add_client on the panel; it answers or raises
nkf_add(p) ==
  /\ pc[p] = "nkf_add"
  /\ \E raised \in BOOLEAN :
       IF raised
       THEN /\ Finish(p, Result(FALSE, "setup_error", loc[p].order))
            /\ hist' = hist
       ELSE /\ pc' = [pc EXCEPT ![p] = "nkf_config"]
            /\ loc' = loc
            /\ hist' = [hist EXCEPT ![loc[p].order[1].id].clients = @ + 1]
  /\ UNCHANGED << payments, vpn_keys, tariffs, settings, fsm, now, ncalls >>

\* lines 462-473: update_vpn_key_config, update_payment_key_id, state.clear()
nkf_config(p) ==
  /\ pc[p] = "nkf_config"
  /\ LET k == update_vpn_key_config(vpn_keys, loc[p].key_id, SERVER, INBOUND,
                                    loc[p].key_id, loc[p].key_id)
         r == update_payment_key_id(payments, loc[p].order_id, loc[p].key_id)
     IN /\ vpn_keys' = k.db
        /\ payments' = r.db
  /\ fsm' = << >>
  /\ hist' = [hist EXCEPT ![loc[p].order[1].id].attached = @ + 1]
  /\ Finish(p, Result(TRUE, "configured", loc[p].order))
  /\ UNCHANGED << tariffs, settings, now, ncalls >>

process_new_key_final(p) == nkf_find(p) \/ nkf_add(p) \/ nkf_config(p)

\* ------------------------------------------- handlers that create orders
ActiveTariffs == { t \in 1..Len(tariffs) : tariffs[t].is_active }

FirstActiveTariff == CHOOSE t \in ActiveTariffs : \A u \in ActiveTariffs : t <= u

UserKeys(u) == { k \in 1..Len(vpn_keys) : vpn_keys[k].user_id = u }

\* buy_key / key_renew (crypto, placeholder tariff), the Stars tariff buttons
create_order_up_to(limit) ==
  /\ Len(payments) < limit
  /\ ActiveTariffs # {}
  /\ \E payment_type \in {"crypto", "stars"}, vpn_key_id \in {NULL} \cup UserKeys(USER) :
     \E tariff_id \in IF payment_type = "crypto"
                      THEN {FirstActiveTariff} ELSE ActiveTariffs :
       LET r == create_pending_order(payments, tariffs, USER, tariff_id,
                                     payment_type, vpn_key_id)
       IN /\ payments' = r.db
          /\ hist' = IF r.db # payments
                     THEN Append(hist, NewHist(vpn_key_id, tariff_id)) ELSE hist
  /\ UNCHANGED << vpn_keys, tariffs, settings, fsm, now, pc, loc, ncalls >>

create_order_handler == create_order_up_to(MaxOrders)

\* ------------------------------------------------------------ environment
Tick ==
  /\ now < MaxNow
  /\ now' = now + 1
  /\ UNCHANGED << payments, vpn_keys, tariffs, settings, fsm, pc, loc, hist, ncalls >>

\* the timeout process outside the engine: pending -> expired
expire_order ==
  /\ \E i \in 1..Len(payments) :
       /\ payments[i].status = "pending"
       /\ payments' = [payments EXCEPT ![i].status = "expired"]
  /\ UNCHANGED << vpn_keys, tariffs, settings, fsm, now, pc, loc, hist, ncalls >>

\* ------------------------------------------------------------------- spec
\* the values an administrator enters in the tariff editor
TariffEdits ==
  { << "price_cents", 400 >>, << "price_stars", 200 >>, << "duration_days", 45 >> }

\* admin/tariffs.py edit_tariff_value: one field of a tariff is replaced
edit_tariff_value ==
  /\ tariffs = InitTariffs
  /\ \E e \in TariffEdits :
       tariffs' = update_tariff_field(tariffs, 1, e[1], e[2]).db
  /\ UNCHANGED << payments, vpn_keys, settings, fsm, now, pc, loc, hist, ncalls >>

\* admin/tariffs.py: the tariff is hidden or shown again
toggle_tariff ==
  /\ tariffs = InitTariffs
  /\ tariffs' = toggle_tariff_active(tariffs, 1).db
  /\ UNCHANGED << payments, vpn_keys, settings, fsm, now, pc, loc, hist, ncalls >>

Init ==
  /\ payments = << >>
  /\ vpn_keys = InitKeys
  /\ tariffs = InitTariffs
  /\ settings \in { << >>, SECRET }
  /\ fsm = << >>
  /\ now = 1
  /\ pc = [p \in Procs |-> "idle"]
  /\ loc = [p \in Procs |-> InitLoc]
  /\ hist = << >>
  /\ ncalls = 0

Quiescent(p) == \A q \in Procs \ {p} : pc[q] \in {"idle", "done"}

\* invocations are interchangeable: the free one with the least number starts
Least(p) == \A q \in Procs : pc[q] = "idle" => p <= q

Begin(p) ==
  \/ successful_payment_handler(p)
  \/ handle_start_with_payment(p)
  \/ nkf_begin(p)

Step(p) ==
  \/ process_payment_order(p)
  \/ process_crypto_payment(p)
  \/ process_new_key_final(p)
  \/ handler_return(p)

Next ==
  \/ create_order_handler
  \/ Tick
  \/ expire_order
  \/ \E p \in Procs : Least(p) /\ Begin(p)
  \/ \E p \in Procs : Step(p)

Spec == Init /\ [][Next]_vars

\* the same program when every invocation runs to its end before the next starts
SerialNext ==
  \/ create_order_handler
  \/ Tick
  \/ expire_order
  \/ \E p \in Procs : Least(p) /\ Quiescent(p) /\ Begin(p)
  \/ \E p \in Procs : Step(p)

SerialSpec == Init /\ [][SerialNext]_vars

\* invocations one after another, and the administrator editing the catalog
AllQuiescent == \A q \in Procs : pc[q] \in {"idle", "done"}

CatalogNext ==
  \/ SerialNext
  \/ AllQuiescent /\ edit_tariff_value
  \/ AllQuiescent /\ toggle_tariff

CatalogSpec == Init /\ [][CatalogNext]_vars

\* invocations interleaved over a store of up to MoreOrders rows; the clock
\* and the timeout of orders, which no order_id depends on, are left out
MoreOrders == 2

create_more_orders == create_order_up_to(MoreOrders)

handle_more_payments(p) == handle_start_with_payment_of(p, CryptoPayloadsUpTo(MoreOrders))

OrdersNext ==
  \/ create_more_orders
  \/ \E p \in Procs : Least(p) /\ successful_payment_handler(p)
  \/ \E p \in Procs : Least(p) /\ handle_more_payments(p)
  \/ \E p \in Procs : Least(p) /\ nkf_begin(p)
  \/ \E p \in Procs : Step(p)

OrdersSpec == Init /\ [][OrdersNext]_vars

\* invocations one after another on a key that has run out, runs out now or
\* is still valid
KeyExpiries == 1..(MaxNow + 1)

ExpiryInit ==
  /\ payments = << >>
  /\ vpn_keys \in { << [InitKeys[1] EXCEPT !.expires_at = e] >> : e \in KeyExpiries }
  /\ tariffs = InitTariffs
  /\ settings \in { << >>, SECRET }
  /\ fsm = << >>
  /\ now = 1
  /\ pc = [p \in Procs |-> "idle"]
  /\ loc = [p \in Procs |-> InitLoc]
  /\ hist = << >>
  /\ ncalls = 0

ExpirySpec == ExpiryInit /\ [][SerialNext]_vars

\* invocations one after another, receipts for invoices of every shape
ReceiptNext ==
  \/ SerialNext
  \/ \E p \in Procs : Least(p) /\ Quiescent(p) /\ successful_payment_other(p)

ReceiptSpec == Init /\ [][ReceiptNext]_vars

\* the store after a Stars order for a new key was created and paid: the
\* order is paid, its draft key is attached to it
PaidNewKeyOrder ==
  LET made == create_pending_order(<< >>, InitTariffs, USER, 1, "stars", NULL)
      paid == complete_order(made.db, made.ret[2], 1)
      key == create_initial_vpn_key(InitKeys, USER, 1, 30, 1)
  IN [ payments |-> update_payment_key_id(paid.db, made.ret[2], key.ret).db,
       vpn_keys |-> key.db,
       order_id |-> made.ret[2],
       key_id |-> key.ret ]

\* the new-key dialog is open for the paid order: the server and inbound
\* buttons are on the screen
ConfigInit ==
  /\ payments = PaidNewKeyOrder.payments
  /\ vpn_keys = PaidNewKeyOrder.vpn_keys
  /\ tariffs = InitTariffs
  /\ settings \in { << >>, SECRET }
  /\ fsm = << [order_id |-> PaidNewKeyOrder.order_id, key_id |-> PaidNewKeyOrder.key_id] >>
  /\ now = 1
  /\ pc = [p \in Procs |-> "idle"]
  /\ loc = [p \in Procs |-> InitLoc]
  /\ hist = << [NewHist(NULL, 1) EXCEPT !.completed = 1, !.drafted = 1, !.days = 30] >>
  /\ ncalls = 0

ConfigSpec == ConfigInit /\ [][OrdersNext]_vars

\* invocations one after another, /start bill... reaching the user router too
StartNext ==
  \/ SerialNext
  \/ \E p \in Procs : Least(p) /\ Quiescent(p) /\ cmd_start(p)

StartSpec == Init /\ [][StartNext]_vars

\* UPDATE payments SET payment_type = ? WHERE order_id = ?
update_payment_type(pay, order_id, payment_type) ==
  LET hit == RowsOf(pay, order_id) IN
  [ db |-> [ i \in 1..Len(pay) |->
               IF i \in hit THEN [pay[i] EXCEPT !.payment_type = payment_type]
               ELSE pay[i] ],
    ret |-> hit # {} ]

\* the button renew_pay_stars:KEY_ID:TARIFF_ID:ORDER_ID of a tariff keyboard
\* that was shown for an order: the order is reused for the Stars invoice
renew_stars_invoice ==
  /\ ncalls < MaxCalls
  /\ ncalls' = ncalls + 1
  /\ \E key_id \in UserKeys(USER), tariff_id \in ActiveTariffs, i \in 1..Len(payments) :
       LET order_id == payments[i].order_id
           retariffed == update_order_tariff(payments, tariffs, order_id, tariff_id, "")
       IN payments' = update_payment_type(retariffed.db, order_id, "stars").db
  /\ UNCHANGED << vpn_keys, tariffs, settings, fsm, now, pc, loc, hist >>

\* invocations one after another, and the Stars tariff buttons of old keyboards
InvoiceNext ==
  \/ SerialNext
  \/ AllQuiescent /\ renew_stars_invoice

InvoiceSpec == Init /\ [][InvoiceNext]_vars

\* a signed callback for an order of the processor whose id is the word that
\* create_pending_order writes in its INSERT
PlaceholderPayloads == { signed_payload(TEMPORARY_ID, << "1" >>, PLACEHOLDER) }

handle_placeholder_payment(p) == handle_start_with_payment_of(p, CryptoPayloadsUpTo(MoreOrders) \cup PlaceholderPayloads)

\* invocations one after another over a store of up to MoreOrders rows made
\* by the bot, the processor naming its orders as it likes; the clock and the
\* timeout of orders are left out
PlaceholderNext ==
  \/ create_more_orders
  \/ \E p \in Procs : Least(p) /\ Quiescent(p) /\ successful_payment_handler(p)
  \/ \E p \in Procs : Least(p) /\ Quiescent(p) /\ handle_placeholder_payment(p)
  \/ \E p \in Procs : Least(p) /\ Quiescent(p) /\ nkf_begin(p)
  \/ \E p \in Procs : Step(p)

PlaceholderSpec == Init /\ [][PlaceholderNext]_vars

\* invocations one after another, process_crypto_payment taking any string
DirectNext ==
  \/ SerialNext
  \/ \E p \in Procs : Least(p) /\ Quiescent(p) /\ process_crypto_payment_direct(p)

DirectSpec == Init /\ [][DirectNext]_vars

\* ============================================================= properties
Rows == 1..Len(payments)

HasRow(p) == RowsOf(payments, loc[p].order_id) # {}

RowOf(p) == CHOOSE i \in RowsOf(payments, loc[p].order_id) : TRUE

Payment(p) == loc[p].kind \in {"stars", "crypto"}

\* process_payment_order has returned success to its handler
Succeeded(p) == pc[p] = "done" /\ Payment(p) /\ loc[p].res.ok

InProvisioning(p) == pc[p] \in {"ppo_extend", "ppo_create", "ppo_attach"}

InPaymentOrder(p) ==
  pc[p] \in {"ppo_check", "ppo_dup", "ppo_find", "ppo_complete",
             "ppo_extend", "ppo_create", "ppo_attach"}

\* the step is taken by invocation p
Steps(p) == pc'[p] # pc[p]

\* C1 as stated: sequential calls of process_payment_order on an order leave it
\* paid by exactly one complete_order and provision exactly once: one call of
\* extend_vpn_key for a renewal order, one draft key for a new-key order.
C1_ExactlyOneProvisioning ==
  \A p \in Procs :
    Succeeded(p) /\ HasRow(p) =>
      LET i == RowOf(p) IN
      /\ payments[i].status = "paid"
      /\ hist[i].completed = 1
      /\ IF hist[i].renewal
         THEN hist[i].extended = 1 /\ hist[i].drafted = 0
         ELSE hist[i].extended = 0 /\ hist[i].drafted = 1

\* C1 amended: sequential calls leave the order paid by exactly one
\* complete_order and provision at most once in total: exactly one call of
\* extend_vpn_key for a renewal order; for a new-key order one draft key, or
\* none when create_initial_vpn_key raised in the call that completed the order.
C1_AtMostOneProvisioning ==
  /\ \A i \in Rows :
       /\ hist[i].completed <= 1
       /\ hist[i].extended + hist[i].drafted <= 1
  /\ \A p \in Procs :
       Succeeded(p) /\ HasRow(p) =>
         LET i == RowOf(p) IN
         /\ payments[i].status = "paid"
         /\ hist[i].completed = 1
         /\ IF hist[i].renewal
            THEN hist[i].extended = 1 /\ hist[i].drafted = 0
            ELSE /\ hist[i].extended = 0
                 /\ hist[i].drafted = (IF hist[i].create_raised THEN 0 ELSE 1)

\* a second call has returned on an order the first call completed and provisioned
C1_Witness ==
  \E p \in Procs :
    /\ Succeeded(p) /\ HasRow(p)
    /\ loc[p].res.msg = "already"
    /\ hist[RowOf(p)].extended + hist[RowOf(p)].drafted = 1

\* C2 as stated: with invocations interleaved at the store calls, the key
\* extension or draft creation of an order is performed at most once.
C2_AtMostOnceInterleaved ==
  \A i \in Rows : hist[i].extended + hist[i].drafted <= 1

\* C3: of all complete_order calls on an order exactly one returns True, namely
\* the one that finds it pending; a call on a paid order returns False and
\* leaves the row as it was.
C3_CompleteOnce ==
  /\ [](\A i \in Rows :
          hist[i].completed = (IF payments[i].status = "paid" THEN 1 ELSE 0))
  /\ [][\A i \in Rows :
          payments[i].status = "paid" =>
            /\ payments'[i] = [payments[i] EXCEPT !.vpn_key_id = payments'[i].vpn_key_id,
                                                  !.tariff_id = payments'[i].tariff_id,
                                                  !.amount_cents = payments'[i].amount_cents,
                                                  !.amount_stars = payments'[i].amount_stars,
                                                  !.period_days = payments'[i].period_days,
                                                  !.payment_type = payments'[i].payment_type]
            /\ hist'[i].completed = hist[i].completed]_vars

\* complete_order has returned False to an invocation because the order was paid
C3_Witness ==
  \E p \in Procs :
    /\ loc[p].refused_paid
    /\ hist[RowOf(p)].completed = 1

\* C4: paid and expired are terminal: no step changes the status of an order
\* that is paid or expired.
C4_Terminal ==
  [][\A i \in Rows :
       payments[i].status \in {"paid", "expired"} =>
         payments'[i].status = payments[i].status]_vars

\* a payment signal has been processed for an order that had expired
C4_Witness ==
  \E p \in Procs :
    /\ pc[p] = "done" /\ Payment(p) /\ HasRow(p)
    /\ loc[p].res.msg = "status_error"
    /\ payments[RowOf(p)].status = "expired"

\* C5: a callback whose signature is not the one computed over its data part
\* with the configured secret is rejected, and no step of its invocation
\* changes the payments or the vpn_keys table.
C5_BadSignatureRejected ==
  /\ [](\A p \in Procs :
          pc[p] = "done" /\ loc[p].forged =>
            loc[p].res = Result(FALSE, "bad_signature", NoOrder))
  /\ [][\A p \in Procs :
          loc[p].forged /\ Steps(p) => UNCHANGED << payments, vpn_keys >>]_vars

\* C6: when the order is paid as process_payment_order starts, the call returns
\* success with the stored order and none of its steps changes the payments or
\* the vpn_keys table.
C6_DuplicateIsNoOp ==
  /\ [](\A p \in Procs :
          pc[p] = "done" /\ loc[p].started_paid =>
            /\ loc[p].res.ok
            /\ loc[p].res.order # NoOrder
            /\ loc[p].res.order[1].order_id = loc[p].order_id
            /\ loc[p].res.order[1].status = "paid")
  /\ [][\A p \in Procs :
          loc[p].started_paid /\ InPaymentOrder(p) /\ Steps(p) =>
            UNCHANGED << payments, vpn_keys >>]_vars

\* a call that started on a paid order has returned
C6_Witness ==
  \E p \in Procs : pc[p] = "done" /\ loc[p].started_paid

\* C7 as stated: when complete_order returns False because another delivery has
\* paid the order, process_payment_order reports success.
C7_RefusedIsSuccess ==
  \A p \in Procs : pc[p] = "done" /\ loc[p].refused_paid => loc[p].res.ok

\* C8 as stated: an order's vpn_key_id, once set, is never changed to another key.
C8_KeyNeverReassigned ==
  [][\A i \in Rows :
       payments[i].vpn_key_id # NULL =>
         payments'[i].vpn_key_id = payments[i].vpn_key_id]_vars

\* C9: provisioning is attempted only on an order whose stored status is paid;
\* no key is extended and no draft created for an order that is still pending.
C9_PaidBeforeProvisioning ==
  /\ \A p \in Procs :
       InProvisioning(p) => HasRow(p) /\ payments[RowOf(p)].status = "paid"
  /\ \A i \in Rows :
       payments[i].status = "pending" =>
         hist[i].extended = 0 /\ hist[i].drafted = 0

\* an invocation is about to create the draft key
C9_Witness ==
  \E p \in Procs : pc[p] = "ppo_create" /\ payments[RowOf(p)].status = "paid"

\* C10: when provisioning fails after complete_order, the order stays paid with
\* paid_at set and process_payment_order returns success with the order.
C10_PaidDespiteFailure ==
  \A p \in Procs :
    pc[p] = "done" /\ loc[p].prov_failed =>
      /\ loc[p].res.ok
      /\ loc[p].res.order # NoOrder
      /\ loc[p].res.order[1].order_id = loc[p].order_id
      /\ payments[RowOf(p)].status = "paid"
      /\ payments[RowOf(p)].paid_at # NULL

\* create_initial_vpn_key raised after the order was completed
C10_Witness ==
  \E p \in Procs :
    /\ pc[p] = "done" /\ loc[p].prov_failed
    /\ hist[RowOf(p)].create_raised

\* the payload of invocation p was parsed and carries the signature of its data
\* part under the configured secret
Signed(p) ==
  /\ loc[p].kind = "crypto" /\ loc[p].order_id # << >>
  /\ settings # << >> /\ ~loc[p].forged

\* the order_id of invocation p lies in the namespace of create_pending_order
InternalId(p) == startswith(loc[p].order_id, << "0", "0" >>)

\* C11: a correctly signed callback whose order_id begins with "00" and is not
\* in the store is rejected, and no step of it changes the payments or the
\* vpn_keys table (no order row and no key row is created).
C11_InternalMissingRejected ==
  /\ [](\A p \in Procs :
          pc[p] = "done" /\ Signed(p) /\ InternalId(p)
            /\ ~HasRow(p) =>
              ~loc[p].res.ok /\ loc[p].res.order = NoOrder)
  /\ [][\A p \in Procs :
          Signed(p) /\ InternalId(p) /\ ~HasRow(p)
            /\ Steps(p) /\ pc[p] # "done" =>
              UNCHANGED << payments, vpn_keys >>]_vars

\* a signed callback for an unknown internal id was answered "order not found"
C11_Witness ==
  \E p \in Procs :
    /\ pc[p] = "done" /\ Signed(p) /\ InternalId(p)
    /\ ~HasRow(p) /\ loc[p].res.msg = "internal_missing"

\* the tariff-number field of the payload of p names an active tariff
Resolves(p) ==
  LET t == loc[p].parsed[1].tariff IN
  /\ t # << >> /\ t # PLACEHOLDER /\ is_int(t)
  /\ \E i \in 1..Len(tariffs) :
       tariffs[i].external_id = to_int(t) /\ tariffs[i].is_active

\* p handles a signed callback for an external order_id that no row has
FirstSeenExternal(p) ==
  /\ Signed(p) /\ ~InternalId(p) /\ ~HasRow(p)
  /\ pc[p] \in {"cp_find", "cp_ext_tariff", "cp_create"}

\* C12: for a signed callback with an external order_id not in the store, a
\* row is only created when the tariff-number field names an active tariff;
\* when it is "_", not a number or names no active tariff, the callback is
\* rejected and no step of it changes the payments or the vpn_keys table.
C12_ExternalNeedsTariff ==
  [][\A p \in Procs :
       FirstSeenExternal(p) /\ Steps(p) /\ ~Resolves(p) =>
         /\ UNCHANGED << payments, vpn_keys >>
         /\ pc'[p] \in {"cp_ext_tariff", "done"}
         /\ pc'[p] = "done" =>
              ~loc'[p].res.ok /\ loc'[p].res.order = NoOrder]_vars

\* a signed callback for a new external order was rejected while tariff 1,
\* which callbacks name, is hidden
C12_Witness ==
  \E p \in Procs :
    /\ pc[p] = "done" /\ Signed(p) /\ ~InternalId(p) /\ ~HasRow(p)
    /\ loc[p].res.msg = "unknown_tariff"
    /\ ~tariffs[1].is_active

\* the active tariff the payload of p names
NamedTariff(p) ==
  LET n == to_int(loc[p].parsed[1].tariff)
      hit == { i \in 1..Len(tariffs) :
                 tariffs[i].external_id = n /\ tariffs[i].is_active }
  IN CHOOSE i \in hit : \A j \in hit : i <= j

\* p handles a signed callback for a pending order and the callback names an
\* active tariff other than the one stored on the order
NamesOtherTariff(p) ==
  /\ Signed(p) /\ HasRow(p) /\ loc[p].parsed # << >>
  /\ pc[p] \in {"cp_find", "cp_tariff", "cp_update"}
  /\ payments[RowOf(p)].status = "pending"
  /\ Resolves(p) /\ NamedTariff(p) # payments[RowOf(p)].tariff_id

\* C13: a signed callback for a pending order that names another active tariff
\* goes through update_order_tariff, which writes that tariff's id, prices and
\* duration and payment_type crypto on the order while it is still pending;
\* the provisioning of that call then gives the key the period stored on the
\* order, that is the new tariff's.
C13_TariffUpdatedBeforePaid ==
  /\ [][\A p \in Procs :
          NamesOtherTariff(p) /\ Steps(p) =>
            LET i == RowOf(p)
                t == NamedTariff(p)
            IN IF pc[p] = "cp_find"
               THEN pc'[p] = "cp_tariff" /\ payments' = payments
               ELSE IF pc[p] = "cp_tariff"
               THEN pc'[p] = "cp_update" /\ payments' = payments
               ELSE /\ pc'[p] = "ppo_check"
                    /\ payments'[i] =
                         [payments[i] EXCEPT
                            !.tariff_id = t,
                            !.amount_cents = tariffs[t].price_cents,
                            !.amount_stars = tariffs[t].price_stars,
                            !.period_days = tariffs[t].duration_days,
                            !.payment_type = "crypto"]]_vars
  /\ [][\A p \in Procs :
          loc[p].retariffed /\ pc[p] \in {"ppo_extend", "ppo_create"}
            /\ Steps(p) /\ vpn_keys' # vpn_keys =>
              LET i == RowOf(p) IN
              /\ payments[i].status = "paid"
              /\ payments[i].period_days =
                   tariffs[payments[i].tariff_id].duration_days
              /\ hist'[i].days = payments[i].period_days]_vars

\* an order made with the 30-day tariff 1 was paid by a callback naming
\* tariff 2 and its key was renewed by 60 days
C13_Witness ==
  \E p \in Procs :
    /\ pc[p] = "done" /\ loc[p].kind = "crypto" /\ HasRow(p)
    /\ loc[p].res.msg = "renewed"
    /\ hist[RowOf(p)].made_with = 1 /\ loc[p].retariffed
    /\ payments[RowOf(p)].tariff_id = 2
    /\ payments[RowOf(p)].period_days = 60
    /\ hist[RowOf(p)].days = 60

\* C14: while no crypto secret is configured every call of
\* process_crypto_payment fails with a message other than the bad-signature
\* one, goes from reading the secret straight to its return, and none of its
\* steps changes the payments or the vpn_keys table.
C14_NoSecretFailsClosed ==
  /\ [](\A p \in Procs :
          pc[p] = "done" /\ loc[p].kind = "crypto" /\ settings = << >> =>
            /\ ~loc[p].res.ok
            /\ loc[p].res.msg \in {"config", "bad_format"}
            /\ loc[p].res.order = NoOrder)
  /\ [][\A p \in Procs :
          loc[p].kind = "crypto" /\ settings = << >> /\ Steps(p)
            /\ pc[p] # "done" =>
              /\ pc[p] = "cp_secret" /\ pc'[p] = "done"
              /\ UNCHANGED << payments, vpn_keys >>]_vars

\* a well-formed callback for a pending order was refused for lack of a secret
C14_Witness ==
  \E p \in Procs :
    /\ pc[p] = "done" /\ loc[p].kind = "crypto" /\ settings = << >>
    /\ loc[p].res.msg = "config"
    /\ HasRow(p) /\ payments[RowOf(p)].status = "pending"

C16_SnapshotKept ==
  [][/\ tariffs' # tariffs => payments' = payments
     /\ \A i \in 1..Len(payments') :
          IF i <= Len(payments)
          THEN \/ /\ payments'[i].amount_cents = payments[i].amount_cents
                  /\ payments'[i].amount_stars = payments[i].amount_stars
               \/ \E p \in Procs : /\ pc[p] = "cp_update" /\ pc'[p] # "cp_update"
                                    /\ loc[p].order_id = payments[i].order_id
          ELSE startswith(payments'[i].order_id, << "0", "0" >>)
               => /\ payments'[i].amount_cents = tariffs[payments'[i].tariff_id].price_cents
                  /\ payments'[i].amount_stars = tariffs[payments'[i].tariff_id].price_stars]_vars

\* the price of tariff 1 was raised after an order was made with it, and the
\* order, now paid, still carries the old price
C16_Witness ==
  \E i \in Rows :
    /\ startswith(payments[i].order_id, << "0", "0" >>)
    /\ payments[i].tariff_id = 1 /\ payments[i].status = "paid"
    /\ payments[i].amount_cents = InitTariffs[1].price_cents
    /\ payments[i].amount_stars = InitTariffs[1].price_stars
    /\ tariffs[1].price_cents # InitTariffs[1].price_cents

\* C17: the days by which process_payment_order extends the key of a renewal,
\* and the lifetime it gives a new draft, are the period_days stored on the
\* order row, whatever duration the tariff of the order has in the catalog now
C17_DaysFromSnapshot ==
  [][\A p \in Procs :
       pc[p] \in {"ppo_extend", "ppo_create"} /\ vpn_keys' # vpn_keys
       => LET i == RowOf(p)
              period == payments[i].period_days
          IN /\ hist'[i].days = period
             /\ pc[p] = "ppo_extend"
                => LET k == payments[i].vpn_key_id IN
                   vpn_keys'[k].expires_at - period \in {vpn_keys[k].expires_at, now}
             /\ pc[p] = "ppo_create"
                => /\ Len(vpn_keys') = Len(vpn_keys) + 1
                   /\ vpn_keys'[Len(vpn_keys')].expires_at = now + period]_vars

\* the duration of the tariff was edited after the order was made, and the
\* order was then completed with the days of its own row
C17_Witness ==
  \E i \in Rows :
    /\ payments[i].status = "paid"
    /\ hist[i].extended + hist[i].drafted = 1
    /\ hist[i].days = payments[i].period_days
    /\ tariffs[payments[i].tariff_id].duration_days # payments[i].period_days

\* C18: extend_vpn_key(key, N) with N >= 1 sets expires_at to the old expiry
\* plus N when the old expiry lies in the future, to now plus N when it lies in
\* the past; either way to max(old, now) + N, never earlier than the old expiry
C18_RenewalAnchor ==
  [][\A p \in Procs :
       pc[p] = "ppo_extend" /\ vpn_keys' # vpn_keys
       => LET i == RowOf(p)
              k == payments[i].vpn_key_id
              N == hist'[i].days
              old == vpn_keys[k].expires_at
              new == vpn_keys'[k].expires_at
          IN N >= 1
             => /\ old > now => new = old + N
                /\ old < now => new = now + N
                /\ new = (IF old >= now THEN old ELSE now) + N
                /\ new >= old
                /\ \A j \in 1..Len(vpn_keys) : j # k => vpn_keys'[j] = vpn_keys[j]]_vars

\* a key that had run out was renewed and counts its days from the renewal
C18_Witness ==
  \E i \in Rows :
    /\ hist[i].extended = 1 /\ hist[i].lapsed /\ hist[i].days >= 1
    /\ payments[i].vpn_key_id # NULL
    /\ vpn_keys[payments[i].vpn_key_id].expires_at = now + hist[i].days

\* the row ids whose encodings are compared
EncodedIds == 1..200

Base62Injective ==
  \A a, b \in EncodedIds : a # b => int_to_base62(a) # int_to_base62(b)

\* C19: no two order rows share an order_id; a row made by
\* create_pending_order carries "00" followed by the base-62 form of its row
\* id, and distinct row ids have distinct forms; a row made by the crypto path
\* for an id it saw first carries an id that does not begin with "00"
C19_OrderIdsUnique ==
  /\ \A i, j \in Rows : i # j => payments[i].order_id # payments[j].order_id
  /\ \A i \in Rows :
       IF hist[i].external
       THEN ~startswith(payments[i].order_id, << "0", "0" >>)
       ELSE payments[i].order_id = << "0", "0" >> \o int_to_base62(i)
  /\ Base62Injective

\* the store holds an order that came from outside and one made by
\* create_pending_order after it, and a callback naming the id of the row that
\* comes next was turned away
C19_Witness ==
  /\ Len(payments) = 2
  /\ hist[1].external /\ ~hist[2].external
  /\ \E p \in Procs :
       /\ pc[p] = "done" /\ loc[p].kind = "crypto"
       /\ loc[p].res.msg = "internal_missing"
       /\ loc[p].order_id = << "0", "0", "2" >>

\* the two strings differ in exactly one character
OneCharacterChanged(a, b) ==
  /\ Len(a) = Len(b)
  /\ Cardinality({ i \in 1..Len(a) : a[i] # b[i] }) = 1

\* the signature was made for a data part that differs from d in one character
SignedForNeighbour(d, signature, secret_key) ==
  \E i \in 1..Len(d), c \in {"1", "2"} :
    /\ d[i] # c
    /\ signature = expected_signature([d EXCEPT ![i] = c], secret_key)

\* C20 as stated: on the pairs that reach it, verify_crypto_signature answers
\* true for the signature made over the data part with the secret, and answers
\* false, without raising, when one character of the signature or of the data
\* part has been changed
C20_SignatureRoundTrip ==
  \A p \in Procs :
    pc[p] = "cp_secret" /\ settings # << >>
    => LET d == loc[p].parsed[1].data_part
           signature == loc[p].parsed[1].signature
           expected == expected_signature(d, settings)
           is_valid == verify_crypto_signature(d, signature, settings)
       IN /\ signature = expected => is_valid = [raised |-> FALSE, ret |-> TRUE]
          /\ OneCharacterChanged(signature, expected) \/ SignedForNeighbour(d, signature, settings)
             => ~is_valid.raised /\ ~is_valid.ret

\* the same for signatures that hold ASCII characters only
C20_AsciiRoundTrip ==
  \A p \in Procs :
    pc[p] = "cp_secret" /\ settings # << >> /\ is_ascii(loc[p].parsed[1].signature)
    => LET d == loc[p].parsed[1].data_part
           signature == loc[p].parsed[1].signature
           expected == expected_signature(d, settings)
           is_valid == verify_crypto_signature(d, signature, settings)
       IN /\ ~is_valid.raised
          /\ signature = expected => is_valid.ret
          /\ OneCharacterChanged(signature, expected) \/ SignedForNeighbour(d, signature, settings)
             => ~is_valid.ret

\* C21: while the store holds no row for the order_id, the steps of
\* process_payment_order change neither the payments nor the vpn_keys table,
\* and the call ends with the not-found failure and no order
C21_UnknownOrderFails ==
  [][\A p \in Procs :
       InPaymentOrder(p) /\ RowsOf(payments, loc[p].order_id) = {} /\ Steps(p)
       => /\ UNCHANGED << payments, vpn_keys >>
          /\ pc'[p] \in {"ppo_find", "done"}
          /\ pc'[p] = "done" => loc'[p].res = Result(FALSE, "notfound", NoOrder)]_vars

\* a receipt for an order the store does not hold was turned away while a
\* pending order and a key were there
C21_Witness ==
  /\ \E p \in Procs :
       /\ pc[p] = "done" /\ loc[p].kind = "stars"
       /\ RowsOf(payments, loc[p].order_id) = {}
       /\ loc[p].res = Result(FALSE, "notfound", NoOrder)
  /\ \E i \in Rows : payments[i].status = "pending"
  /\ Len(vpn_keys) >= 1

CompletedItself(p) ==
  pc[p] \in {"ppo_extend", "ppo_create"} /\ ~loc[p].refused_paid

\* C23: when the invocation that completed an order created for a key comes to
\* provision, it extends exactly that key by the period_days of the order,
\* creates no key, and leaves the order row, its vpn_key_id included, as it is
C23_RenewalExtendsItsKey ==
  [][\A p \in Procs :
       CompletedItself(p) /\ Steps(p) /\ hist[RowOf(p)].for_key # NULL
       => LET i == RowOf(p)
              k == hist[i].for_key
              old == vpn_keys[k].expires_at
          IN /\ pc[p] = "ppo_extend"
             /\ Len(vpn_keys') = Len(vpn_keys)
             /\ vpn_keys'[k].expires_at
                  = (IF old > now THEN old ELSE now) + payments[i].period_days
             /\ \A j \in 1..Len(vpn_keys) : j # k => vpn_keys'[j] = vpn_keys[j]
             /\ payments' = payments
             /\ payments[i].vpn_key_id = k
             /\ loc'[p].res.ok /\ loc'[p].res.msg = "renewed"]_vars

\* a renewal order is paid, its key was extended once by its period, and the
\* store holds no other key
C23_Witness ==
  \E i \in Rows :
    /\ hist[i].for_key # NULL /\ payments[i].status = "paid"
    /\ hist[i].completed = 1 /\ hist[i].extended = 1
    /\ payments[i].vpn_key_id = hist[i].for_key
    /\ hist[i].days = payments[i].period_days
    /\ vpn_keys[hist[i].for_key].expires_at >= InitKeys[1].expires_at + payments[i].period_days
    /\ Len(vpn_keys) = Len(InitKeys)

\* the invocation completed a new-key order itself and has returned
CompletedNewKeyOrder(p) ==
  /\ pc[p] = "done" /\ Payment(p) /\ HasRow(p) /\ ~loc[p].refused_paid
  /\ hist[RowOf(p)].for_key = NULL
  /\ loc[p].res.msg \in {"created", "create_error"}

\* the key is a draft with the user and the tariff of the order as it was
\* when the invocation read it
DraftOf(k, order) ==
  /\ k \in 1..Len(vpn_keys)
  /\ vpn_keys[k].server_id = NULL
  /\ vpn_keys[k].user_id = order.user_id
  /\ vpn_keys[k].tariff_id = order.tariff_id

\* C24 as stated: the invocation that completed an order without a key leaves
\* exactly one new draft key of the order's user and tariff, and the order
\* carries its id
C24_ExactlyOneDraft ==
  \A p \in Procs :
    CompletedNewKeyOrder(p)
    => LET i == RowOf(p) IN
       /\ hist[i].drafted = 1
       /\ DraftOf(payments[i].vpn_key_id, loc[p].res.order[1])

\* C24 amended: the invocation that completed an order without a key creates
\* one draft key of the order's user and tariff and then writes its id on the
\* order, touching no other key; when create_initial_vpn_key raises no key is
\* created, when update_payment_key_id raises the draft stays unlinked, and in
\* both cases the order keeps a null vpn_key_id
C24_DraftUnlessRaised ==
  /\ [][\A p \in Procs :
          CompletedItself(p) /\ Steps(p) /\ hist[RowOf(p)].for_key = NULL
          => LET i == RowOf(p) IN
             /\ pc[p] = "ppo_create"
             /\ payments' = payments
             /\ \A j \in 1..Len(vpn_keys) : vpn_keys'[j] = vpn_keys[j]
             /\ IF hist'[i].create_raised
                THEN /\ vpn_keys' = vpn_keys
                     /\ pc'[p] = "done" /\ loc'[p].res.msg = "create_error"
                ELSE /\ Len(vpn_keys') = Len(vpn_keys) + 1
                     /\ vpn_keys'[Len(vpn_keys')].server_id = NULL
                     /\ vpn_keys'[Len(vpn_keys')].user_id = payments[i].user_id
                     /\ vpn_keys'[Len(vpn_keys')].tariff_id = payments[i].tariff_id
                     /\ pc'[p] = "ppo_attach" /\ loc'[p].key_id = Len(vpn_keys')]_vars
  /\ [][\A p \in Procs :
          pc[p] = "ppo_attach" /\ Steps(p)
          => LET i == RowOf(p) IN
             /\ vpn_keys' = vpn_keys
             /\ \/ /\ loc'[p].res.msg = "created"
                   /\ payments' = [payments EXCEPT ![i].vpn_key_id = loc[p].key_id]
                \/ /\ loc'[p].res.msg = "create_error"
                   /\ payments' = payments]_vars
  /\ [](\A p \in Procs :
          CompletedNewKeyOrder(p)
          => LET i == RowOf(p) IN
             IF loc[p].res.msg = "created"
             THEN /\ hist[i].drafted = 1
                  /\ DraftOf(payments[i].vpn_key_id, loc[p].res.order[1])
             ELSE /\ payments[i].vpn_key_id = NULL
                  /\ hist[i].drafted = (IF hist[i].create_raised THEN 0 ELSE 1))

\* a new-key order was completed, its draft created and linked
C24_Witness ==
  \E p \in Procs :
    /\ CompletedNewKeyOrder(p) /\ loc[p].res.msg = "created"
    /\ DraftOf(payments[RowOf(p)].vpn_key_id, loc[p].res.order[1])
    /\ payments[RowOf(p)].vpn_key_id = loc[p].key_id
    /\ vpn_keys[1] = InitKeys[1]

\* the part of s after its first n characters
After(s, n) == SubSeq(s, n + 1, Len(s))

\* s up to its first colon, all of s when it has none
RECURSIVE UpToColon(_)
UpToColon(s) ==
  IF s = << >> \/ Head(s) = ":" THEN << >> ELSE << Head(s) >> \o UpToColon(Tail(s))

\* a Stars receipt is being processed by invocation p
Receipt(p) == loc[p].kind = "stars" /\ pc[p] # "idle"

OrderRequests ==
  { << tariff_id, payment_type, vpn_key_id >> :
      tariff_id \in 1..Len(tariffs), payment_type \in {"crypto", "stars"},
      vpn_key_id \in {NULL} \cup UserKeys(USER) }

\* C27: no committed row carries the temporary order_id of the INSERT, and a
\* call of create_pending_order made in any reachable state succeeds: it
\* meets neither the temporary id nor its final id in the store
C27_PlaceholderNeverCommitted ==
  /\ \A i \in Rows : payments[i].order_id # TEMPORARY_ID
  /\ \A r \in OrderRequests :
       LET made == create_pending_order(payments, tariffs, USER, r[1], r[2], r[3]) IN
       /\ made.ret[1] = Len(payments) + 1
       /\ Len(made.db) = Len(payments) + 1
       /\ made.db[Len(made.db)].order_id = made.ret[2]
       /\ made.ret[2] # TEMPORARY_ID

\* an order of the bot and, after it, an order of the processor named by the
\* temporary id, paid
C27_PlaceholderCommitted ==
  \E i, j \in Rows :
    /\ i < j
    /\ ~hist[i].external /\ payments[i].order_id = << "0", "0", "1" >>
    /\ hist[j].external /\ payments[j].order_id = TEMPORARY_ID
    /\ payments[j].status = "paid"

\* C28: once an order is paid, its tariff_id, amount_cents, amount_stars,
\* period_days and payment_type never change again
C28_PaidOrderFrozen ==
  [][\A i \in Rows :
       payments[i].status = "paid"
       => /\ payments'[i].tariff_id = payments[i].tariff_id
          /\ payments'[i].amount_cents = payments[i].amount_cents
          /\ payments'[i].amount_stars = payments[i].amount_stars
          /\ payments'[i].period_days = payments[i].period_days
          /\ payments'[i].payment_type = payments[i].payment_type]_vars

\* the same of the steps of the crypto callbacks alone
C28_FrozenForCallbacks ==
  [][(\E p \in Procs : Steps(p))
     => \A i \in Rows :
          payments[i].status = "paid"
          => /\ payments'[i].tariff_id = payments[i].tariff_id
             /\ payments'[i].period_days = payments[i].period_days]_vars

\* the same of the Stars invoice requests alone
C28_FrozenForInvoices ==
  [][(\A p \in Procs : ~Steps(p))
     => \A i \in Rows :
          payments[i].status = "paid"
          => /\ payments'[i].tariff_id = payments[i].tariff_id
             /\ payments'[i].payment_type = payments[i].payment_type]_vars

\* C29: for one order the panel is asked for at most one client that it
\* creates, and server, inbound, UUID and email are written to the key at
\* most once, however the runs of process_new_key_final interleave
C29_OneClientPerOrder ==
  \A i \in Rows : hist[i].clients <= 1 /\ hist[i].attached <= 1

\* the state the new-key dialog starts from is one the handlers reach
C29_DialogOpen ==
  /\ payments = PaidNewKeyOrder.payments
  /\ vpn_keys = PaidNewKeyOrder.vpn_keys
  /\ fsm = << [order_id |-> PaidNewKeyOrder.order_id, key_id |-> PaidNewKeyOrder.key_id] >>
  /\ hist = << [NewHist(NULL, 1) EXCEPT !.completed = 1, !.drafted = 1, !.days = 30] >>
  /\ \A p \in Procs : pc[p] = "idle" /\ loc[p] = InitLoc

\* two runs were started from the same dialog data and the panel has made a
\* client for each
C29_TwoClients ==
  \E i \in Rows :
    /\ hist[i].clients = 2
    /\ \E p, q \in Procs :
         /\ p # q
         /\ loc[p].kind = "new_key" /\ loc[q].kind = "new_key"
         /\ loc[p].order_id = payments[i].order_id
         /\ loc[q].order_id = payments[i].order_id

\* a call of process_crypto_payment that was given no user_id
Anonymous(p) == loc[p].kind = "start" /\ loc[p].user_id = NULL

\* C30: a correctly signed callback for an order_id seen for the first time
\* and not of the bot's own shape, handled without a user_id, is rejected
\* and creates no order row and no key row; every order made for the
\* processor has the user the caller named
C30_NoUserNoOrder ==
  /\ [][\A p \in Procs :
          Anonymous(p) /\ Steps(p) /\ RowsOf(payments, loc[p].order_id) = {}
          => /\ payments' = payments /\ vpn_keys' = vpn_keys
             /\ (pc[p] = "cp_find" /\ ~startswith(loc[p].order_id, << "0", "0" >>)
                 => /\ pc'[p] = "done"
                    /\ loc'[p].res = Result(FALSE, "no_user", NoOrder))]_vars
  /\ [](\A i \in Rows : hist[i].external => payments[i].user_id # NULL)

\* the user router has answered a signed callback for an order of the
\* processor that the store did not hold
C30_Witness ==
  \E p \in Procs :
    /\ pc[p] = "done" /\ Anonymous(p) /\ ~loc[p].forged
    /\ loc[p].order_id = EXTERNAL_ORDER
    /\ loc[p].res = Result(FALSE, "no_user", NoOrder)
    /\ RowsOf(payments, EXTERNAL_ORDER) = {}

====
